---- MODULE Spec2Model ----
(***************************************************************************)
(* A model of AIGameEngine (src/dynamic_prompt_test.py): the battle state, *)
(* the offline generator, the live generator with its retry loop, the      *)
(* response repairer and the turn protocol.                                *)
(*                                                                         *)
(* Python dicts are functions whose DOMAIN is the set of keys present.     *)
(* Texts are token sequences (braces, comment marks, newlines, prose and   *)
(* the serialized members of the value they carry) with their length in    *)
(* characters; prompts are abstracted to whether they hold the marker the  *)
(* offline generator looks for.  The Chinese literals of the source        *)
(* are written in ASCII:                                                   *)
(*   "ronin" = 流浪武士, "octopus" = 机械章鱼, "tentacle_whip" = 触手鞭笞,  *)
(*   "oil_spray" = 油污喷射, "emp" = 电磁脉冲, "mock" = 模拟,               *)
(*   "real" = 真实AI, "init_marker" = a text holding 初始化 or 初始设定.    *)
(* Timestamps of history entries are left out: nothing reads them.         *)
(***************************************************************************)
EXTENDS Integers, Sequences, FiniteSets, TLC

VARIABLES
    use_mock,      \* self.use_mock
    ai_enabled,    \* self.ai_enabled
    client,        \* self.client is not None
    diagnostic,    \* the message the constructor printed
    game_data,     \* self.game_data, its combatants held by reference (see heap)
    heap,          \* the combatant dict objects: heap[1] the constructor's pair,
                   \* heap[k+1] the pair created by the k-th initialize_game
    ret,           \* the outcome of the last operation: what it returned or that it raised
    calls,         \* the backend calls the last operation made, in order
    deviations,    \* how many inputs of the session departed from a plain run
    overruns,      \* how many play_round calls were made with the game already over
    turns,         \* play_round calls since the constructor or the last seeding
    answered,      \* the endpoint has answered a call with text other than
                   \* unparseable text
    conversation_memory,  \* AIServer.conversation_memory (src/server.py)
    received,      \* the payload of the message on_message handled last
    published,     \* what on_message published for it to esp32/output
    messages       \* how many messages on_message has handled

\* The state of the chat server, a process of its own
server_vars == <<conversation_memory, received, published, messages>>

\* The state of the game engine
engine_vars == <<use_mock, ai_enabled, client, diagnostic, game_data, heap, ret, calls,
                 deviations, overruns, turns, answered>>

vars == <<use_mock, ai_enabled, client, diagnostic, game_data, heap, ret, calls, deviations, overruns,
          turns, answered, conversation_memory, received, published, messages>>

----------------------------------------------------------------------------
(* Bounds of the model *)

\* initialize_game calls per session
MaxInits == 2
\* inputs of a session that depart from a plain run (the endpoint down, plain
\* action texts, one initialize_game, no direct call of the backend): endpoint
\* replies, action texts holding the marker, repeated initialize_game calls,
\* direct calls of call_ai and extract_json, mutations of a status snapshot
MaxDeviations == 1
\* play_round calls made although is_game_over is already true
MaxOverruns == 1
\* messages the chat server handles
MaxMessages == 7

(* Program constants *)

RoundCap == 20
HpCeiling == 2000
ConcCeiling == 100
ClimaxHp == 300
max_retries == 3
SummaryEvery == 3
SummaryMinLen == 10
MinHistoryForSummary == 2
max_memory == 12

----------------------------------------------------------------------------
(* Python dict and list helpers *)

EmptyDict == [k \in {} |-> 0]
Has(d, k) == k \in DOMAIN d
Get(d, k, default) == IF k \in DOMAIN d THEN d[k] ELSE default
Put(d, k, v) == [y \in (DOMAIN d) \cup {k} |-> IF y = k THEN v ELSE d[y]]
Without(d, ks) == [y \in (DOMAIN d) \ ks |-> d[y]]
InSeq(s, x) == \E i \in 1..Len(s) : s[i] = x
AppendNew(s, x) == IF InSeq(s, x) THEN s ELSE Append(s, x)
Max(a, b) == IF a >= b THEN a ELSE b
Min(a, b) == IF a <= b THEN a ELSE b

\* The element of a singleton set.  The({F(x) : x \in {e}}) is F(e) with the
\* value of e computed once, as a local variable of the code holds it.
The(S) == CHOOSE v \in S : TRUE

(* JSON values: a dict, a list or a scalar *)
DictVal(d) == [kind |-> "dict", obj |-> d]
ListVal == [kind |-> "list", obj |-> EmptyDict]
ScalarVal == [kind |-> "scalar", obj |-> EmptyDict]
NoVal == [kind |-> "nothing", obj |-> EmptyDict]

(* Texts.  toks is the text as tokens: "{" and "}" are braces, "body" the   *)
(* serialized members of val, "[]" a JSON list, "5" a JSON number, "w" a    *)
(* prose word, "//" and "#" comment marks, " " a blank and "nl" a newline.  *)
(* len is the length in characters; none marks Python's None (absent        *)
(* content).                                                                *)
Text(toks, v, n) == [toks |-> toks, val |-> v, len |-> n, none |-> FALSE]

\* json.dumps(v)
Dumps(v) ==
    IF v.kind = "dict" THEN (IF v.obj = EmptyDict THEN <<"{", "}">> ELSE <<"{", "body", "}">>)
    ELSE IF v.kind = "list" THEN <<"[]">>
    ELSE <<"5">>

JsonText(v, n) == Text(Dumps(v), v, n)
NoneText == [toks |-> <<>>, val |-> NoVal, len |-> 0, none |-> TRUE]
EmptyText == Text(<<>>, NoVal, 0)
GarbageText == Text(<<"w">>, NoVal, 40)
ShortText == Text(<<"w">>, NoVal, 10)
IsNone(text) == text.none

----------------------------------------------------------------------------
(* The offline generator *)

\* The prompt holds 初始化 or 初始设定 (line 91)
HasInitMarker(prompt) == prompt.marker

\* The seed scenario (atk and spd, which nothing reads, are left out)
MockSeed ==
    [player |-> [name |-> "ronin", hp |-> 1200, max_hp |-> 1200, conc |-> 100,
                 skills |-> <<"draw_slash", "mind_eye", "sword_guard", "meditate">>],
     enemy |-> [name |-> "octopus", hp |-> 1500, max_hp |-> 1500, conc |-> 100,
                skills |-> <<"tentacle_whip", "oil_spray", "emp", "energy_recycle">>],
     reason |-> "antimatter_battery",
     opening |-> "standoff"]

\* Canned stages that do no damage
BucketHarmless(current_round) ==
    [stage |-> "skirmish", enemy_skill |-> "tentacle_whip",
     player_damage |-> 0, enemy_damage |-> 0, reads |-> {"player", "enemy"}]

\* The canned stage of a round number: the enemy skill, the damage pair, and
\* whose names its narrative and dialogue templates read
Bucket(current_round) ==
    IF current_round <= 3 THEN
        [stage |-> "skirmish", enemy_skill |-> "tentacle_whip",
         player_damage |-> 120, enemy_damage |-> 100, reads |-> {"player", "enemy"}]
    ELSE IF current_round <= 6 THEN
        [stage |-> "escalation", enemy_skill |-> "oil_spray",
         player_damage |-> 180, enemy_damage |-> 150, reads |-> {"enemy"}]
    ELSE IF current_round <= 9 THEN
        [stage |-> "climax", enemy_skill |-> "emp",
         player_damage |-> 250, enemy_damage |-> 200, reads |-> {"enemy"}]
    ELSE
        [stage |-> "denouement", enemy_skill |-> "tentacle_whip",
         player_damage |-> 100, enemy_damage |-> 80, reads |-> {}]

\* The phase the offline generator reports (the climax test comes first)
MockPhase(player_hp, enemy_hp) ==
    IF player_hp <= ClimaxHp \/ enemy_hp <= ClimaxHp THEN "climax"
    ELSE IF player_hp <= 0 \/ enemy_hp <= 0 THEN "ending"
    ELSE "battle"

\* The outcome of a call: raised, the text returned, and enemy_skills_used
\* as the call leaves it
Outcome(raised, text, used) == [raised |-> raised, text |-> text, used |-> used]

\* _call_ai_mock on game data gd whose combatants are the dicts P and E
_call_ai_mock(prompt, gd, P, E) ==
    IF HasInitMarker(prompt) THEN
        Outcome(FALSE, JsonText(DictVal(MockSeed), 600), gd.enemy_skills_used)
    ELSE
        LET current_round == gd.round + 1
            b == Bucket(current_round)
            namesRead == /\ ("player" \in b.reads => Has(P, "name"))
                         /\ ("enemy" \in b.reads => Has(E, "name"))
            used == AppendNew(gd.enemy_skills_used, b.enemy_skill)
        IN  IF ~namesRead THEN
                \* KeyError 'name' while formatting the narrative or dialogue
                Outcome(TRUE, NoneText, gd.enemy_skills_used)
            ELSE IF ~(Has(P, "hp") /\ Has(E, "hp") /\ Has(P, "conc") /\ Has(E, "conc")) THEN
                \* KeyError after the skill was recorded
                Outcome(TRUE, NoneText, used)
            ELSE
                LET player_hp == Max(0, P.hp - b.enemy_damage)
                    enemy_hp == Max(0, E.hp - b.player_damage)
                    player_conc == Max(0, P.conc - 20)
                    enemy_conc == Max(0, E.conc - 25)
                    rec == [narrative |-> b.stage,
                            status |-> [player_hp |-> player_hp, enemy_hp |-> enemy_hp,
                                        player_conc |-> player_conc,
                                        enemy_conc |-> enemy_conc],
                            phase |-> MockPhase(player_hp, enemy_hp),
                            dialogue |-> b.stage,
                            damage_dealt |-> b.stage,
                            enemy_skill_used |-> b.enemy_skill,
                            player_skill_used |-> "mock_skill"]
                IN  Outcome(FALSE, JsonText(DictVal(rec), 300), used)

----------------------------------------------------------------------------
(* The live generator and the backend selection *)

\* An endpoint behaviour for one generate call: the first `fails` attempts
\* raise, the next one answers with `reply`
Script(fails, reply) == [fails |-> fails, reply |-> reply]
FailAll == Script(max_retries, NoneText)

\* What one generate call did: the prompt and the endpoint behaviour it met,
\* its outcome, the endpoint attempts it made, the seconds it slept between
\* them, and whether the text came from the endpoint
Trace(prompt, script, out, attempts, sleeps, live) ==
    [prompt |-> prompt, script |-> script, out |-> out, attempts |-> attempts,
     sleeps |-> sleeps, live |-> live]

\* A linear backoff in place of the exponential one
LinearBackoff(attempt) == 2 * (attempt + 1)

\* wait_time = 2 ** attempt
Backoff(attempt) == 2 ^ attempt

\* Whether the loop sleeps and retries after a failed attempt
RetriesAfter(attempt) == attempt < max_retries - 1

\* The retry loop of _call_ai_real from attempt number `attempt` on
RECURSIVE RetryLoop(_, _, _, _, _, _, _)
RetryLoop(attempt, sleeps, prompt, script, gd, P, E) ==
    IF attempt >= max_retries THEN
        Trace(prompt, script, _call_ai_mock(prompt, gd, P, E), attempt, sleeps, FALSE)
    ELSE IF attempt >= script.fails THEN
        \* return response.choices[0].message.content
        Trace(prompt, script, Outcome(FALSE, script.reply, gd.enemy_skills_used),
              attempt + 1, sleeps, TRUE)
    ELSE IF RetriesAfter(attempt) THEN
        RetryLoop(attempt + 1, Append(sleeps, Backoff(attempt)), prompt, script, gd, P, E)
    ELSE
        Trace(prompt, script, _call_ai_mock(prompt, gd, P, E), attempt + 1, sleeps, FALSE)

_call_ai_real(prompt, script, gd, P, E) ==
    IF ~client \/ ~ai_enabled THEN
        Trace(prompt, script, _call_ai_mock(prompt, gd, P, E), 0, <<>>, FALSE)
    ELSE
        RetryLoop(0, <<>>, prompt, script, gd, P, E)

\* A selection that stays offline once the previous operation saw a live
\* call fail three times
call_ai_sticky(prompt, script, gd, P, E) ==
    IF use_mock \/ ~ai_enabled
          \/ (\E i \in 1..Len(calls) : calls[i].attempts = max_retries /\ ~calls[i].live) THEN
        Trace(prompt, script, _call_ai_mock(prompt, gd, P, E), 0, <<>>, FALSE)
    ELSE
        _call_ai_real(prompt, script, gd, P, E)

call_ai(prompt, script, gd, P, E) ==
    IF use_mock \/ ~ai_enabled THEN
        Trace(prompt, script, _call_ai_mock(prompt, gd, P, E), 0, <<>>, FALSE)
    ELSE
        _call_ai_real(prompt, script, gd, P, E)

----------------------------------------------------------------------------
(* The response repairer *)

\* "模拟数据": the prompt extract_json gives the offline generator
FallbackPrompt == [kind |-> "fallback", marker |-> FALSE]

Parsed(raised, val, used, stage) ==
    [raised |-> raised, val |-> val, used |-> used, stage |-> stage]

WhiteSpace == {" ", "nl"}

\* str.strip()
RECURSIVE LStrip(_)
LStrip(t) == IF t # <<>> /\ Head(t) \in WhiteSpace THEN LStrip(Tail(t)) ELSE t
RECURSIVE RStrip(_)
RStrip(t) ==
    IF t # <<>> /\ t[Len(t)] \in WhiteSpace THEN RStrip(SubSeq(t, 1, Len(t) - 1)) ELSE t
Strip(t) == RStrip(LStrip(t))

\* str.find and str.rfind, 0 for Python's -1
Find(t, x) ==
    IF InSeq(t, x)
    THEN CHOOSE i \in 1..Len(t) : t[i] = x /\ \A j \in 1..(i - 1) : t[j] # x
    ELSE 0
RFind(t, x) ==
    IF InSeq(t, x)
    THEN CHOOSE i \in 1..Len(t) : t[i] = x /\ \A j \in (i + 1)..Len(t) : t[j] # x
    ELSE 0

\* json.loads of tokens t carrying value v: whitespace between tokens is
\* skipped; one object, list or number and nothing else is a document
Loaded(ok, v) == [ok |-> ok, val |-> v]
Loads(t, v) ==
    LET doc == SelectSeq(t, LAMBDA x : x \notin WhiteSpace)
    IN  IF doc = <<"{", "body", "}">> THEN Loaded(TRUE, v)
        ELSE IF doc = <<"{", "}">> THEN Loaded(TRUE, DictVal(EmptyDict))
        ELSE IF doc = <<"[]">> THEN Loaded(TRUE, ListVal)
        ELSE IF doc = <<"5">> THEN Loaded(TRUE, ScalarVal)
        ELSE Loaded(FALSE, NoVal)

\* A slice that stops before the last '}'
BraceSliceOpen(t) ==
    IF Find(t, "{") # 0 /\ RFind(t, "}") # 0
    THEN SubSeq(t, Find(t, "{"), RFind(t, "}") - 1)
    ELSE <<>>

\* text[text.find('{') : text.rfind('}') + 1], nothing when a brace is missing
BraceSlice(t) ==
    IF Find(t, "{") # 0 /\ RFind(t, "}") # 0
    THEN SubSeq(t, Find(t, "{"), RFind(t, "}"))
    ELSE <<>>

\* text.split('\n')
RECURSIVE SplitLines(_)
SplitLines(t) ==
    LET i == Find(t, "nl")
    IN  IF i = 0 THEN <<t>>
        ELSE <<SubSeq(t, 1, i - 1)>> \o SplitLines(SubSeq(t, i + 1, Len(t)))

\* '\n'.join(lines)
RECURSIVE JoinLines(_)
JoinLines(ls) ==
    IF ls = <<>> THEN <<>>
    ELSE IF Len(ls) = 1 THEN ls[1]
    ELSE ls[1] \o <<"nl">> \o JoinLines(Tail(ls))

\* The text with each line stripped and the lines that start with // or #
\* left out
Uncommented(t) ==
    LET ls == SplitLines(t)
        stripped == [i \in 1..Len(ls) |-> Strip(ls[i])]
    IN  JoinLines(SelectSeq(stripped,
                            LAMBDA l : ~(l # <<>> /\ Head(l) \in {"//", "#"})))

\* json.loads(text) succeeds
ParsesVerbatim(text) == Loads(Strip(text.toks), text.val).ok
\* json.loads(text[first '{' : last '}' + 1]) succeeds
ParsesBraces(text) == Loads(BraceSlice(Strip(text.toks)), text.val).ok
\* json.loads of the text without its comment lines succeeds
ParsesStripped(text) == Loads(Uncommented(Strip(text.toks)), text.val).ok

extract_json(text, gd, P, E) ==
    IF IsNone(text) THEN
        \* None.strip(): AttributeError
        Parsed(TRUE, NoVal, gd.enemy_skills_used, "strip")
    ELSE IF ParsesVerbatim(text) THEN
        Parsed(FALSE, Loads(Strip(text.toks), text.val).val, gd.enemy_skills_used,
               "verbatim")
    ELSE IF ParsesBraces(text) THEN
        Parsed(FALSE, Loads(BraceSlice(Strip(text.toks)), text.val).val,
               gd.enemy_skills_used, "braces")
    ELSE IF ParsesStripped(text) THEN
        Parsed(FALSE, Loads(Uncommented(Strip(text.toks)), text.val).val,
               gd.enemy_skills_used, "stripped")
    ELSE
        LET m == _call_ai_mock(FallbackPrompt, gd, P, E)
        IN  Parsed(m.raised, m.text.val, m.used, "fallback")

----------
(* The battle state *)

\* "战斗开始...", the summary the constructor sets (7 characters)
InitialSummary == Text(<<"w">>, NoVal, 7)

\* self.game_data as the constructor leaves it
NewGameData(mock) ==
    [battle_reason |-> "",
     history |-> <<>>,
     current_summary |-> InitialSummary,
     round |-> 0,
     phase |-> "init",
     mode |-> IF mock THEN "mock" ELSE "real",
     enemy_skills_used |-> <<>>]

NewCombatant == [name |-> "", hp |-> 0, max_hp |-> 0, conc |-> 0, skills |-> <<>>]

\* game_data["player"] and game_data["enemy"]: the pair created last
Player(h) == h[Len(h)].player
Enemy(h) == h[Len(h)].enemy

\* The data of a history entry.  An init entry holds the record the seed came
\* from, whose player and enemy are the very dicts game_data was given.
HistoryData(entry, h) ==
    IF Has(entry, "type") THEN
        Put(Put(entry.data.rest, "player", h[entry.data.seed].player),
            "enemy", h[entry.data.seed].enemy)
    ELSE entry.data

\* What an operation did: the state it leaves, whether it raised, the value
\* it returned and the backend calls it made
Result(gd, h, raised, val, cs) ==
    [gd |-> gd, heap |-> h, raised |-> raised, val |-> val, calls |-> cs]

----------------------------------------------------------------------------
(* initialize_game *)

\* The prompt of initialize_game: its template holds 初始设定 and embeds the
\* two names the caller gave
InitPrompt(player_name, enemy_name) ==
    [kind |-> "init", marker |-> TRUE, names |-> <<player_name, enemy_name>>]

\* "初始化": the prompt initialize_game gives the offline generator when the
\* record it got lacks a combatant
DefaultSeedPrompt == [kind |-> "default_seed", marker |-> TRUE]

\* Lines 326-334: the defaults of a combatant whose record has no hp
WithDefaults(c, hp) ==
    IF ~Has(c, "hp")
    THEN [y \in (DOMAIN c) \cup {"hp", "max_hp", "conc"} |->
             IF y \in {"hp", "max_hp"} THEN hp
             ELSE IF y = "conc" THEN 100
             ELSE c[y]]
    ELSE c

\* A seeding that leaves the phase alone
SeededKeepingPhase(gd, h, data, p, e) ==
    LET entry == [type |-> "init",
                  data |-> [seed |-> Len(h) + 1, rest |-> Without(data, {"player", "enemy"})],
                  narrative |-> Get(data, "opening", "battle_begins")]
    IN  [gd |-> [gd EXCEPT !.battle_reason = Get(data, "reason", "unknown_reason"),
                           !.round = 0,
                           !.enemy_skills_used = <<>>,
                           !.history = Append(@, entry)],
         heap |-> Append(h, [player |-> p, enemy |-> e])]

\* Lines 316-342 and 349-363: seed the state from record `data` whose
\* combatants are p and e, and append the init entry
Seeded(gd, h, data, p, e) ==
    LET entry == [type |-> "init",
                  data |-> [seed |-> Len(h) + 1, rest |-> Without(data, {"player", "enemy"})],
                  narrative |-> Get(data, "opening", "battle_begins")]
    IN  [gd |-> [gd EXCEPT !.battle_reason = Get(data, "reason", "unknown_reason"),
                           !.phase = "battle",
                           !.round = 0,
                           !.enemy_skills_used = <<>>,
                           !.history = Append(@, entry)],
         heap |-> Append(h, [player |-> p, enemy |-> e])]

\* Lines 313-366: the record `data` was extracted (x) from the reply of call c
SeedFrom(c, x, gd, h) ==
    LET gd1 == [gd EXCEPT !.enemy_skills_used = x.used]
        data == x.val
    IN  IF x.raised THEN Result(gd1, h, TRUE, NoVal, <<c>>)
        ELSE IF data.kind = "scalar" THEN
            \* "player" in data: TypeError
            Result(gd1, h, TRUE, NoVal, <<c>>)
        ELSE IF data.kind = "dict" /\ Has(data.obj, "player") /\ Has(data.obj, "enemy") THEN
            The({Result(s.gd, s.heap, FALSE,
                        DictVal([y \in DOMAIN data.obj |->
                                    IF y = "player" THEN Player(s.heap)
                                    ELSE IF y = "enemy" THEN Enemy(s.heap)
                                    ELSE data.obj[y]]),
                        <<c>>) :
                 s \in {Seeded(gd1, h, data.obj, WithDefaults(data.obj.player, 1000),
                               WithDefaults(data.obj.enemy, 1200))}})
        ELSE
            The({The({Result(s.gd, s.heap, FALSE, DictVal(default_data), <<c>>) :
                      s \in {Seeded(gd1, h, default_data, default_data.player,
                                    default_data.enemy)}}) :
                 default_data \in
                     {_call_ai_mock(DefaultSeedPrompt, gd1, Player(h), Enemy(h)).text.val.obj}})

\* Lines 310-311: the reply of call c is measured and handed to extract_json
InitializeFrom(c, gd, h) ==
    IF c.out.raised THEN
        Result([gd EXCEPT !.enemy_skills_used = c.out.used], h, TRUE, NoVal, <<c>>)
    ELSE IF IsNone(c.out.text) THEN
        \* len(response) on None: TypeError
        Result([gd EXCEPT !.enemy_skills_used = c.out.used], h, TRUE, NoVal, <<c>>)
    ELSE
        The({SeedFrom(c, x, gd, h) :
             x \in {extract_json(c.out.text, [gd EXCEPT !.enemy_skills_used = c.out.used],
                                 Player(h), Enemy(h))}})

initialize_game(player_name, enemy_name, script, gd, h) ==
    The({InitializeFrom(c, gd, h) :
         c \in {call_ai(InitPrompt(player_name, enemy_name), script, gd,
                        Player(h), Enemy(h))}})


----------------------------------------------------------------------------
(* update_summary *)

\* The action text of a turn: plain, or holding the offline generator's marker
Actions == {"attack", "init_marker"}

\* The summary prompt embeds the last three history entries, and with them
\* the action texts of those turns
SummaryPrompt(history) ==
    [kind |-> "summary",
     marker |-> \E i \in 1..Len(history) :
                    /\ i > Len(history) - 3
                    /\ Has(history[i], "action")
                    /\ history[i].action = "init_marker"]

\* if summary and len(summary) > 10
KeepsSummary(text) == text.len > 0 /\ text.len > SummaryMinLen

\* Lines 379-380: the summary is replaced by the text call c returned
SummaryFrom(c, gd) ==
    IF c.out.raised THEN [gd |-> [gd EXCEPT !.enemy_skills_used = c.out.used], calls |-> <<c>>]
    ELSE IF KeepsSummary(c.out.text) THEN
        [gd |-> [gd EXCEPT !.enemy_skills_used = c.out.used,
                           !.current_summary = c.out.text],
         calls |-> <<c>>]
    ELSE [gd |-> [gd EXCEPT !.enemy_skills_used = c.out.used], calls |-> <<c>>]

\* update_summary: the game data it leaves and the backend calls it made
update_summary(script, gd, P, E) ==
    IF Len(gd.history) < MinHistoryForSummary THEN [gd |-> gd, calls |-> <<>>]
    ELSE IF Len(gd.history) % SummaryEvery = 0 THEN
        The({SummaryFrom(c, gd) :
             c \in {call_ai(SummaryPrompt(gd.history), script, gd, P, E)}})
    ELSE [gd |-> gd, calls |-> <<>>]


----------------------------------------------------------------------------
(* play_round, is_game_over, get_game_status *)

\* The round prompt embeds the player's action text
RoundPrompt(action) == [kind |-> "round", marker |-> action = "init_marker"]

\* A clamp without the ceiling
ClampFloor(v, ceiling) == Max(0, v)

\* max(0, min(v, ceiling))
Clamp(v, ceiling) == Max(0, Min(v, ceiling))

\* Lines 445-453: the status record with its four fields clamped
ClampedStatus(status) ==
    [y \in (DOMAIN status) \cup {"player_hp", "enemy_hp", "player_conc", "enemy_conc"} |->
        IF y \in {"player_hp", "enemy_hp"} THEN Clamp(Get(status, y, 0), HpCeiling)
        ELSE IF y \in {"player_conc", "enemy_conc"} THEN Clamp(Get(status, y, 0), ConcCeiling)
        ELSE status[y]]

\* An update that also moves max_hp to the hp of the round
UpdatedWithMaxHp(c, hp, conc) ==
    [y \in (DOMAIN c) \cup {"hp", "conc", "max_hp"} |->
        IF y \in {"hp", "max_hp"} THEN hp ELSE IF y = "conc" THEN conc ELSE c[y]]

\* Lines 456-459: the combatant with the hp and conc of the round
Updated(c, hp, conc) ==
    [y \in (DOMAIN c) \cup {"hp", "conc"} |->
        IF y = "hp" THEN hp ELSE IF y = "conc" THEN conc ELSE c[y]]

\* Lines 461-462: the phase after a round whose record is rd
NextPhase(phase, rd) == IF Has(rd, "phase") THEN rd.phase ELSE phase

\* Lines 461-482: the round record rd, its status already clamped and applied
\* to the combatants P1 and E1, is recorded and returned
RecordRound(action, script2, gd, h, rd, P1, E1, cs) ==
    LET enemy_skill_used == Get(rd, "enemy_skill_used", "")
        entry == [round |-> gd.round,
                  action |-> action,
                  player_skill |-> Get(rd, "player_skill_used", ""),
                  enemy_skill |-> enemy_skill_used,
                  data |-> rd]
    IN  The({The({Result(u.gd, [h EXCEPT ![Len(h)] = [player |-> P1, enemy |-> E1]],
                         FALSE, DictVal(rd), cs \o u.calls) :
                  u \in {update_summary(script2, gd1, P1, E1)}}) :
             gd1 \in {[gd EXCEPT !.phase = NextPhase(@, rd),
                                 !.enemy_skills_used =
                                     IF enemy_skill_used # ""
                                     THEN AppendNew(@, enemy_skill_used)
                                     ELSE @,
                                 !.history = Append(@, entry)]}})

\* Lines 443-482 for a round record that is a dict
ApplyRound(action, script2, gd, h, rd0, cs) ==
    IF Has(rd0, "status") THEN
        The({RecordRound(action, script2, gd, h,
                         [y \in DOMAIN rd0 |-> IF y = "status" THEN status ELSE rd0[y]],
                         Updated(Player(h), status.player_hp, status.player_conc),
                         Updated(Enemy(h), status.enemy_hp, status.enemy_conc), cs) :
             status \in {ClampedStatus(rd0.status)}})
    ELSE RecordRound(action, script2, gd, h, rd0, Player(h), Enemy(h), cs)


\* A turn that leaves the round counter alone
KeepRound(gd) == gd

\* self.game_data["round"] += 1
IncrementRound(gd) == [gd EXCEPT !.round = @ + 1]

\* Lines 441-482: the reply of call c is parsed (x) and applied
RoundFrom(action, script2, c, x, gd, h) ==
    IF x.raised THEN Result([gd EXCEPT !.enemy_skills_used = x.used], h, TRUE, NoVal, <<c>>)
    ELSE IF x.val.kind = "dict" THEN
        ApplyRound(action, script2, [gd EXCEPT !.enemy_skills_used = x.used], h,
                   x.val.obj, <<c>>)
    ELSE
        \* a scalar: "status" in round_data raises TypeError;
        \* a list: round_data.get raises AttributeError
        Result([gd EXCEPT !.enemy_skills_used = x.used], h, TRUE, NoVal, <<c>>)

\* Lines 440-441: the reply of call c is handed to extract_json
PlayFrom(action, script2, c, gd, h) ==
    IF c.out.raised THEN
        Result([gd EXCEPT !.enemy_skills_used = c.out.used], h, TRUE, NoVal, <<c>>)
    ELSE
        The({RoundFrom(action, script2, c, x, gd, h) :
             x \in {extract_json(c.out.text, [gd EXCEPT !.enemy_skills_used = c.out.used],
                                 Player(h), Enemy(h))}})

play_round(action, script1, script2, gd, h) ==
    IF ~(/\ Has(Player(h), "hp") /\ Has(Enemy(h), "hp")
         /\ Has(Player(h), "name") /\ Has(Enemy(h), "name")) THEN
        \* KeyError while building the context
        Result(IncrementRound(gd), h, TRUE, NoVal, <<>>)
    ELSE
        The({The({PlayFrom(action, script2, c, gd1, h) :
                  c \in {call_ai(RoundPrompt(action), script1, gd1, Player(h), Enemy(h))}}) :
             gd1 \in {IncrementRound(gd)}})


\* A cap that fires one round late
is_game_over_late(gd, P, E) ==
    \/ P.hp <= 0
    \/ E.hp <= 0
    \/ gd.phase = "ending"
    \/ gd.round > RoundCap

is_game_over(gd, P, E) ==
    \/ P.hp <= 0
    \/ E.hp <= 0
    \/ gd.phase = "ending"
    \/ gd.round >= RoundCap

get_game_status(gd, h) ==
    [round |-> gd.round,
     phase |-> gd.phase,
     player |-> Player(h),
     enemy |-> Enemy(h),
     game_over |-> is_game_over(gd, Player(h), Enemy(h)),
     history_count |-> Len(gd.history),
     mode |-> gd.mode,
     enemy_skills_used |-> gd.enemy_skills_used]

----------------------------------------------------------------------------
(* The constructor *)

\* __init__: api_key is absent ("none"), shorter than 10 characters ("short")
\* or well formed ("valid"); the client library imports or not; the client
\* object is built or its constructor raises; the probe call answers with
\* content ("ok"), with empty content ("empty") or raises ("raise").  The
\* diagnostic is the message printed: "mock_mode" = 使用模拟模式运行,
\* "no_library" = 未安装openai库, "bad_key" = API密钥格式不正确,
\* "connect_failed" = API连接失败, "connected" = API连接成功,
\* "probe_failed" = API测试失败
Built(mock, enabled, has_client, message) ==
    [use_mock |-> mock, ai_enabled |-> enabled, client |-> has_client,
     diagnostic |-> message]

\* A constructor that stays in live mode when the probe answers without content
ConstructTrusting(api_key, use_mock_arg, import_ok, client_ok, probe) ==
    LET mock0 == use_mock_arg \/ api_key = "none"
    IN  IF mock0 THEN Built(TRUE, FALSE, FALSE, "mock_mode")
        ELSE IF ~import_ok THEN Built(TRUE, FALSE, FALSE, "no_library")
        ELSE IF api_key = "short" THEN Built(TRUE, FALSE, FALSE, "bad_key")
        ELSE IF ~client_ok THEN Built(TRUE, FALSE, FALSE, "connect_failed")
        ELSE IF probe = "ok" THEN Built(FALSE, TRUE, TRUE, "connected")
        ELSE IF probe = "empty" THEN Built(FALSE, FALSE, TRUE, "probe_failed")
        ELSE Built(TRUE, FALSE, TRUE, "connect_failed")

Construct(api_key, use_mock_arg, import_ok, client_ok, probe) ==
    LET mock0 == use_mock_arg \/ api_key = "none"
    IN  IF mock0 THEN Built(TRUE, FALSE, FALSE, "mock_mode")
        ELSE IF ~import_ok THEN Built(TRUE, FALSE, FALSE, "no_library")
        ELSE IF api_key = "short" THEN Built(TRUE, FALSE, FALSE, "bad_key")
        ELSE IF ~client_ok THEN Built(TRUE, FALSE, FALSE, "connect_failed")
        ELSE IF probe = "ok" THEN Built(FALSE, TRUE, TRUE, "connected")
        ELSE IF probe = "empty" THEN Built(TRUE, FALSE, TRUE, "probe_failed")
        ELSE Built(TRUE, FALSE, TRUE, "connect_failed")

----------------------------------------------------------------------------
(* What the endpoint may answer *)

RoundRecord(php, ehp, pc, ec, phase, skill) ==
    [narrative |-> "live_narrative",
     status |-> [player_hp |-> php, enemy_hp |-> ehp, player_conc |-> pc, enemy_conc |-> ec],
     phase |-> phase,
     dialogue |-> "live_dialogue",
     damage_dealt |-> "live_damage",
     enemy_skill_used |-> skill,
     player_skill_used |-> "slash"]

\* Round records: in range; out of range with an unknown phase; a player hp
\* of 0 reported as battle; a record without status; one without phase and
\* with a partial status; an empty record; a recovery
LiveRoundRecords ==
    {RoundRecord(2000, 2000, 100, 100, "battle", "laser"),
     RoundRecord(5000, -3, 150, -5, "weird", ""),
     RoundRecord(0, 800, 50, 50, "battle", "tentacle_whip"),
     RoundRecord(500, 500, 50, 50, "battle", "oil_spray"),
     [narrative |-> "live_narrative", phase |-> "ending"],
     [narrative |-> "live_narrative", status |-> [player_hp |-> 250]],
     EmptyDict}

LiveRoundReplies ==
    {JsonText(DictVal(r), 200) : r \in LiveRoundRecords}
        \cup {Text(<<"w", " ", "{", "body", "}", "nl", "w">>,
                   DictVal(RoundRecord(900, 900, 80, 80, "climax", "laser")), 260),
              JsonText(ListVal, 6), JsonText(ScalarVal, 1),
              GarbageText, EmptyText, NoneText}

LiveCombatant(name, hp, max_hp, conc, skill) ==
    [name |-> name, hp |-> hp, max_hp |-> max_hp, conc |-> conc, skills |-> <<skill>>]

\* Init records: complete; combatants with fields missing or out of range;
\* an enemy already at hp 0; a record without enemy
LiveInitRecords ==
    {[player |-> LiveCombatant("A", 1000, 1000, 100, "slash"),
      enemy |-> LiveCombatant("B", 800, 800, 100, "laser"),
      reason |-> "live_reason", opening |-> "live_opening"],
     [player |-> [hp |-> -5, max_hp |-> 50, conc |-> 500], enemy |-> EmptyDict],
     [player |-> [name |-> "A", hp |-> 900],
      enemy |-> LiveCombatant("B", 0, 800, 100, "laser"),
      reason |-> "live_reason"],
     [player |-> LiveCombatant("A", 1000, 1000, 100, "slash")]}

LiveInitReplies ==
    {JsonText(DictVal(r), 500) : r \in LiveInitRecords}
        \cup {JsonText(ListVal, 6), JsonText(ScalarVal, 1), GarbageText, EmptyText, NoneText}

\* The names a caller gives initialize_game
NamePairs == {<<"A", "B">>, <<"ronin", "octopus">>}

LiveSummaryReplies == {GarbageText, ShortText, EmptyText, NoneText}

\* Texts given to extract_json directly: a record alone or with whitespace,
\* prose, a comment line or prose holding braces before it, and nothing,
\* prose or prose holding a brace after it; a record with a comment line
\* inside; a list; and texts holding no record
LeadingProse ==
    {<<>>, <<"nl", " ">>, <<"w", " ">>, <<"#", "w", "nl">>, <<"w", "{", "w", "}", " ">>}
TrailingProse == {<<>>, <<" ", "w">>, <<" ", "w", "}">>}
RepairRecord == DictVal([narrative |-> "live_narrative"])
RepairTexts ==
    {Text(lead \o Dumps(RepairRecord) \o trail, RepairRecord, 60) :
        lead \in LeadingProse, trail \in TrailingProse}
    \cup {Text(<<"{", "nl", "//", "w", "}", "nl", "body", "}">>, RepairRecord, 60),
          JsonText(DictVal(EmptyDict), 2), JsonText(ListVal, 6),
          GarbageText, EmptyText, Text(<<"w", "{", "w">>, NoVal, 40),
          Text(<<"}", "w", "{">>, NoVal, 40)}

\* Endpoint behaviours: every reply at the first attempt, one reply after one
\* and after two failed attempts, and three failed attempts
Scripts(replies, late) ==
    IF use_mock \/ ~ai_enabled THEN {FailAll}
    ELSE {Script(0, r) : r \in replies} \cup {Script(1, late), Script(2, late), FailAll}

\* One of the three attempts of extract_json succeeds
Parses(text) == ParsesVerbatim(text) \/ ParsesBraces(text) \/ ParsesStripped(text)

\* Whether a call got unparseable text from the endpoint for an init or a
\* round prompt: the repairer then substitutes the offline record
Unparseable(c) ==
    /\ c.live
    /\ ~IsNone(c.out.text)
    /\ ~Parses(c.out.text)

\* The endpoint replies of a sequence of calls that depart from a plain run:
\* all but the unparseable replies to init and round prompts, which leave the
\* state a failed call leaves
Consumed(cs) ==
    Cardinality({i \in 1..Len(cs) :
        /\ cs[i].live
        /\ ~(Unparseable(cs[i]) /\ cs[i].prompt.kind \in {"init", "round"})})

\* Whether the endpoint answered one of the calls with text that parses, or
\* with no content
Answered(cs) == \E i \in 1..Len(cs) : cs[i].live /\ ~Unparseable(cs[i])

----------------------------------------------------------------------------
(* The state machine *)

\* The outcome of an operation: whether it raised, the value it returned, the
\* text it returned (call_ai) or was given (extract_json), and the attempt of
\* extract_json that produced the value
Ret(op, raised, val, text) ==
    [op |-> op, raised |-> raised, val |-> val, text |-> text, stage |-> ""]

Init ==
    /\ \E api_key \in {"none", "short", "valid"}, use_mock_arg \in BOOLEAN,
          import_ok \in BOOLEAN, client_ok \in BOOLEAN, probe \in {"ok", "empty", "raise"} :
          \E c \in {Construct(api_key, use_mock_arg, import_ok, client_ok, probe)} :
              /\ use_mock = c.use_mock
              /\ ai_enabled = c.ai_enabled
              /\ client = c.client
              /\ diagnostic = c.diagnostic
              /\ game_data = NewGameData(c.use_mock)
    /\ heap = <<[player |-> NewCombatant, enemy |-> NewCombatant]>>
    /\ ret = Ret("construct", FALSE, NoVal, NoneText)
    /\ calls = <<>>
    /\ deviations = 0
    /\ overruns = 0
    /\ turns = 0
    /\ answered = FALSE
    /\ conversation_memory = <<>>
    /\ received = "nothing"
    /\ published = "nothing"
    /\ messages = 0

\* Commit the result r of operation op, which departed from a plain run
\* `extra` times besides the endpoint replies it consumed
Commit(op, r, extra) ==
    /\ deviations + Consumed(r.calls) + extra <= MaxDeviations
    /\ game_data' = r.gd
    /\ heap' = r.heap
    /\ ret' = Ret(op, r.raised, r.val, NoneText)
    /\ calls' = r.calls
    /\ deviations' = deviations + Consumed(r.calls) + extra
    /\ answered' = (answered \/ Answered(r.calls))
    /\ UNCHANGED <<server_vars, use_mock, ai_enabled, client, diagnostic>>

\* What an endpoint behaviour adds to the departures when it meets a prompt of
\* the given kind (see Consumed)
ScriptCost(kind, script) ==
    IF script.fails >= max_retries THEN 0
    ELSE IF kind \in {"init", "round"} /\ ~IsNone(script.reply) /\ ~Parses(script.reply) THEN 0
    ELSE 1

\* The endpoint behaviours that `spent` more departures leave room for
Affordable(kind, scripts, spent) ==
    {s \in scripts : deviations + spent + ScriptCost(kind, s) <= MaxDeviations}

InitializeGame ==
    /\ Len(heap) <= MaxInits
    /\ \E names \in NamePairs,
          script \in Affordable("init", Scripts(LiveInitReplies, GarbageText),
                                IF Len(heap) > 1 THEN 1 ELSE 0) :
          \E r \in {initialize_game(names[1], names[2], script, game_data, heap)} :
              /\ Commit("initialize_game", r, IF Len(heap) > 1 THEN 1 ELSE 0)
              /\ turns' = IF r.raised THEN turns ELSE 0
    /\ UNCHANGED overruns

\* Whether the next play_round reaches the backend call of update_summary
SummaryDue == (Len(game_data.history) + 1) % SummaryEvery = 0

PlayRound ==
    /\ LET over == is_game_over(game_data, Player(heap), Enemy(heap))
       IN  /\ over => overruns < MaxOverruns
           /\ overruns' = IF over THEN overruns + 1 ELSE overruns
    /\ \E action \in Actions :
          LET extra == IF action = "init_marker" THEN 1 ELSE 0
          IN  \E script1 \in Affordable("round", Scripts(LiveRoundReplies, GarbageText), extra) :
                 \E script2 \in IF SummaryDue
                                THEN Affordable("summary",
                                                Scripts(LiveSummaryReplies, GarbageText),
                                                extra + ScriptCost("round", script1))
                                ELSE {FailAll} :
                    \E r \in {play_round(action, script1, script2, game_data, heap)} :
                        Commit("play_round", r, extra)
    /\ turns' = turns + 1

UpdateSummary ==
    /\ \E script \in Affordable("summary", Scripts(LiveSummaryReplies, GarbageText), 0) :
          \E u \in {update_summary(script, game_data, Player(heap), Enemy(heap))} :
              \E r \in {Result(u.gd, heap, FALSE, NoVal, u.calls)} :
                  Commit("update_summary", r, 0)
    /\ UNCHANGED <<overruns, turns>>

CallAi ==
    /\ deviations + 1 <= MaxDeviations
    /\ \E marker \in BOOLEAN, script \in Scripts(LiveSummaryReplies, GarbageText) :
          \E c \in {call_ai([kind |-> "other", marker |-> marker], script, game_data,
                          Player(heap), Enemy(heap))} :
              /\ deviations + 1 <= MaxDeviations
              /\ game_data' = [game_data EXCEPT !.enemy_skills_used = c.out.used]
              /\ ret' = Ret("call_ai", c.out.raised, NoVal, c.out.text)
              /\ calls' = <<c>>
              /\ deviations' = deviations + 1
              /\ answered' = (answered \/ Answered(<<c>>))
    /\ UNCHANGED <<server_vars, use_mock, ai_enabled, client, diagnostic, heap, overruns, turns>>

\* A direct call of extract_json
ExtractJson ==
    /\ deviations + 1 <= MaxDeviations
    /\ \E text \in RepairTexts :
          \E x \in {extract_json(text, game_data, Player(heap), Enemy(heap))} :
              /\ game_data' = [game_data EXCEPT !.enemy_skills_used = x.used]
              /\ ret' = [Ret("extract_json", x.raised, x.val, text) EXCEPT !.stage = x.stage]
    /\ calls' = <<>>
    /\ deviations' = deviations + 1
    /\ UNCHANGED <<server_vars, use_mock, ai_enabled, client, diagnostic, heap, overruns, turns, answered>>

GetGameStatus ==
    /\ ret' = Ret("get_game_status", FALSE, DictVal(get_game_status(game_data, heap)), NoneText)
    /\ calls' = <<>>
    /\ UNCHANGED <<server_vars, use_mock, ai_enabled, client, diagnostic, game_data, heap, deviations,
                   overruns, turns, answered>>

\* What a caller may do to the snapshot get_game_status returned: assign a
\* field of the player copy, append to the player copy's skills, append to
\* the used-skills copy
Mutations == {"player_hp", "player_skills", "enemy_skills_used"}

\* The snapshot after the caller's mutation
Mutated(status, m) ==
    IF m = "player_hp" THEN [status EXCEPT !.player = Put(@, "hp", 9999)]
    ELSE IF m = "player_skills" THEN
        [status EXCEPT !.player = Put(@, "skills", Append(@.skills, "forged"))]
    ELSE [status EXCEPT !.enemy_skills_used = Append(@, "forged")]

\* The caller mutates the snapshot it holds.  dict.copy() made a new dict with
\* the same values: the skills list of the player copy is the engine's list.
MutateSnapshot ==
    /\ ret.op = "get_game_status"
    /\ deviations + 1 <= MaxDeviations
    /\ \E m \in Mutations :
          /\ m = "player_skills" => Has(ret.val.obj.player, "skills")
          /\ ret' = Ret("mutate_snapshot", FALSE, DictVal(Mutated(ret.val.obj, m)), NoneText)
          /\ heap' = IF m = "player_skills"
                     THEN [heap EXCEPT ![Len(heap)].player.skills = Append(@, "forged")]
                     ELSE heap
    /\ calls' = <<>>
    /\ deviations' = deviations + 1
    /\ UNCHANGED <<server_vars, use_mock, ai_enabled, client, diagnostic, game_data, overruns, turns,
                   answered>>

Next ==
    \/ InitializeGame
    \/ PlayRound
    \/ UpdateSummary
    \/ CallAi
    \/ ExtractJson
    \/ GetGameStatus
    \/ MutateSnapshot

Spec == Init /\ [][Next]_vars

----------------------------------------------------------------------------
(* Properties *)

Initialized == Len(heap) > 1
CurPlayer == Player(heap)
CurEnemy == Enemy(heap)
LiveMode == ~use_mock /\ ai_enabled

\* hp, max_hp and conc are present and 0 <= hp <= max_hp, 0 <= conc <= 100
InRange(c) ==
    /\ Has(c, "hp") /\ Has(c, "max_hp") /\ Has(c, "conc")
    /\ 0 <= c.hp /\ c.hp <= c.max_hp
    /\ 0 <= c.conc /\ c.conc <= 100

InitFields == {"player", "enemy", "reason", "opening"}
RoundFields == {"narrative", "status", "phase", "dialogue", "enemy_skill_used",
                "player_skill_used"}
StatusFields == {"player_hp", "enemy_hp", "player_conc", "enemy_conc"}

\* A round payload with every required field and its status in range
ValidRoundPayload(v) ==
    /\ v.kind = "dict"
    /\ RoundFields \subseteq DOMAIN v.obj
    /\ StatusFields \subseteq DOMAIN v.obj.status
    /\ \A f \in {"player_hp", "enemy_hp"} :
          0 <= v.obj.status[f] /\ v.obj.status[f] <= 2000
    /\ \A f \in {"player_conc", "enemy_conc"} :
          0 <= v.obj.status[f] /\ v.obj.status[f] <= 100

\* An init payload with every required field
ValidInitPayload(v) ==
    /\ v.kind = "dict"
    /\ InitFields \subseteq DOMAIN v.obj
    /\ InRange(v.obj.player)
    /\ InRange(v.obj.enemy)

\* C1: after initialize_game and any play_round calls, with any backend
\* responses, both combatants have 0 <= hp <= max_hp and 0 <= conc <= 100.
C1_HpConcInRange ==
    Initialized => InRange(CurPlayer) /\ InRange(CurEnemy)

C3_HistoryGrowth ==
    [][/\ Len(game_data'.history) >= Len(game_data.history)
       /\ (ret'.op \in {"initialize_game", "play_round"} =>
              Len(game_data'.history) = Len(game_data.history) + 1)
       /\ (ret'.op \notin {"initialize_game", "play_round"} =>
              Len(game_data'.history) = Len(game_data.history))]_vars

\* C4: after 20 play_round calls following initialize_game the game is over,
\* and a play_round that leaves a combatant's hp at 0 leaves the game over.
C4_GameOverByCap ==
    Initialized =>
        /\ (turns >= 20 => is_game_over(game_data, CurPlayer, CurEnemy))
        /\ (ret.op = "play_round" /\ (CurPlayer.hp = 0 \/ CurEnemy.hp = 0) =>
               is_game_over(game_data, CurPlayer, CurEnemy))

\* C4 witness: the 20th turn ends with both combatants alive and the phase
\* not ending, so only the cap ends the game
C4_CapReachedAlive ==
    /\ Initialized
    /\ turns = 20
    /\ ret.op = "play_round"
    /\ CurPlayer.hp > 0 /\ CurEnemy.hp > 0
    /\ game_data.phase # "ending"

\* C5: after a play_round that leaves a combatant's hp at 0, get_game_status
\* reports game_over = true and phase = "ending", whatever phase the backend
\* reported.
C5_EndingAtZeroHp ==
    (/\ Initialized
     /\ ret.op = "play_round" /\ ~ret.raised
     /\ (CurPlayer.hp = 0 \/ CurEnemy.hp = 0))
    => LET status == get_game_status(game_data, heap)
       IN  status.game_over /\ status.phase = "ending"

\* C6: with a backend that always fails or always returns unparseable text,
\* initialize_game and every play_round return without raising a record with
\* all required fields in range, and the hp/conc invariants hold afterwards.
C6_FallbackValid ==
    (LiveMode /\ Initialized /\ ~answered) =>
        /\ (ret.op = "initialize_game" => ~ret.raised /\ ValidInitPayload(ret.val))
        /\ (ret.op = "play_round" => ~ret.raised /\ ValidRoundPayload(ret.val))
        /\ InRange(CurPlayer) /\ InRange(CurEnemy)

\* A parsed round reply that is no complete record
IncompleteReply(c) ==
    /\ c.live
    /\ c.prompt.kind = "round"
    /\ ~IsNone(c.out.text)
    /\ Parses(c.out.text)
    /\ (c.out.text.val.kind # "dict" \/ ~(RoundFields \subseteq DOMAIN c.out.text.val.obj))

\* C7: when the round response parses but is an incomplete record, play_round
\* does not raise, performs a valid transition (round +1, one history entry,
\* hp/conc in range) and returns a payload with the missing fields filled in.
C7_IncompleteAbsorbed ==
    [][(/\ Initialized
        /\ ret'.op = "play_round"
        /\ Len(calls') >= 1
        /\ IncompleteReply(calls'[1])) =>
          /\ ~ret'.raised
          /\ game_data'.round = game_data.round + 1
          /\ Len(game_data'.history) = Len(game_data.history) + 1
          /\ ValidRoundPayload(ret'.val)]_vars

\* C8: is_game_over, and game_over of get_game_status, is true if and only if
\* player hp = 0, or enemy hp = 0, or phase = "ending", or round >= 20; it is
\* false after initialize_game with positive hp values.
C8_GameOverIff ==
    LET status == get_game_status(game_data, heap)
    IN  /\ status.game_over = (\/ CurPlayer.hp = 0
                               \/ CurEnemy.hp = 0
                               \/ game_data.phase = "ending"
                               \/ game_data.round >= 20)
        /\ (/\ ret.op = "initialize_game" /\ ~ret.raised
            /\ CurPlayer.hp > 0 /\ CurEnemy.hp > 0
            => ~status.game_over)

\* C9: a live generate call makes at most 3 endpoint attempts, returns the
\* first successful response without further attempts, waits 1 s and then 2 s
\* between failed attempts, and after the third failure returns the offline
\* generator's output for the same prompt.
C9_RetryPolicy ==
    [][(ret'.op = "call_ai" /\ LiveMode) =>
          LET c == calls'[1]
              fails == c.script.fails
          IN  /\ c.attempts <= 3
              /\ c.attempts = Min(fails + 1, 3)
              /\ c.sleeps = SubSeq(<<1, 2>>, 1, Min(fails, 2))
              /\ (fails < 3 => c.live /\ ~c.out.raised /\ c.out.text = c.script.reply)
              /\ (fails >= 3 =>
                     /\ ~c.live
                     /\ c.out = _call_ai_mock(c.prompt, game_data, CurPlayer, CurEnemy))]_vars

\* C9 witness: a live call whose three attempts failed, after sleeping 1 s
\* and 2 s, and that returned offline text
C9_ThreeFailures ==
    /\ LiveMode
    /\ ret.op = "call_ai"
    /\ calls[1].attempts = 3
    /\ calls[1].sleeps = <<1, 2>>
    /\ ~calls[1].live
    /\ ParsesVerbatim(ret.text)

\* C10: call_ai never raises and always returns text, for every prompt, every
\* engine state and every behaviour of the live endpoint.
C10_CallAiReturnsText ==
    ret.op = "call_ai" => ~ret.raised /\ ~IsNone(ret.text)

\* C11: when the live backend could not be constructed (no key, short key,
\* library missing, probe failing or answering without content) the session
\* is offline for good: mode reports the offline value and no call_ai reaches
\* the endpoint; and mode reports live exactly when the probe succeeded.
C11_OfflineForSession ==
    LET mode == get_game_status(game_data, heap).mode
    IN  /\ (diagnostic # "connected" =>
               /\ mode = "mock"
               /\ \A i \in 1..Len(calls) : calls[i].attempts = 0 /\ ~calls[i].live)
        /\ (mode = "real" <=> diagnostic = "connected")

\* C11 witness: a session whose probe answered without content, in which a
\* turn called the backend with the client object in place
C11_ProbeFailedTurn ==
    /\ diagnostic = "probe_failed"
    /\ client
    /\ ret.op = "play_round"
    /\ Len(calls) >= 1
    /\ calls[1].attempts = 0

\* C12: when the verbatim parse, the brace substring parse and the comment
\* stripping all fail, extract_json reports a parse error: it returns no
\* record of its own making and leaves the battle state alone.
C12_ReportsParseError ==
    [][(/\ ret'.op = "extract_json"
        /\ ~IsNone(ret'.text)
        /\ ~Parses(ret'.text)) =>
          /\ ret'.val.kind # "dict"
          /\ game_data' = game_data]_vars

\* The text is the serialization of the record it carries, between a leading
\* and a trailing prose of the given sets
Wrapped(text, leads, trails) ==
    /\ text.val.kind = "dict"
    /\ \E lead \in leads, trail \in trails :
          text.toks = lead \o Dumps(text.val) \o trail

\* The attempts are tried in the order verbatim, brace substring, comment
\* stripping: the value comes from the first that succeeds
FirstAttemptWins ==
    /\ (ParsesVerbatim(ret.text) => ret.stage = "verbatim")
    /\ (~ParsesVerbatim(ret.text) /\ ParsesBraces(ret.text) => ret.stage = "braces")
    /\ (~ParsesVerbatim(ret.text) /\ ~ParsesBraces(ret.text) /\ ParsesStripped(ret.text) =>
           ret.stage = "stripped")

BraceFree(prose) == ~InSeq(prose, "{") /\ ~InSeq(prose, "}")

C14_SnapshotIsolated ==
    [][ret'.op = "mutate_snapshot" =>
          get_game_status(game_data', heap') = get_game_status(game_data, heap)]_vars

\* C15: play_round on an engine on which initialize_game was never called is
\* signalled to the caller as an exceptional outcome and is not processed as
\* a normal turn.
C15_RoundBeforeInitRejected ==
    [][(~Initialized /\ ret'.op = "play_round") =>
          /\ ret'.raised
          /\ game_data' = game_data]_vars

C17_OfflineSeedNamed ==
    (~LiveMode /\ ret.op = "initialize_game" /\ ~ret.raised) =>
        /\ CurPlayer.name = calls[1].prompt.names[1]
        /\ CurEnemy.name = calls[1].prompt.names[2]

Phases == {"init", "battle", "climax", "ending"}

\* C18: in every reachable state the phase is one of init, battle, climax,
\* ending; a phase the backend reports outside these four is never stored.
C18_PhaseRecognized ==
    game_data.phase \in Phases

\* The phase the hp values call for: ending at hp 0, climax at hp <= 300
DerivedPhase(player_hp, enemy_hp) ==
    IF player_hp = 0 \/ enemy_hp = 0 THEN "ending"
    ELSE IF player_hp <= 300 \/ enemy_hp <= 300 THEN "climax"
    ELSE "battle"

\* C19: when the round record carries no phase or an unrecognized one, the
\* phase after play_round is the one derived from the post-round hp values.
C19_PhaseDerivedFromHp ==
    [][(/\ Initialized
        /\ ret'.op = "play_round"
        /\ ~ret'.raised
        /\ (~Has(ret'.val.obj, "phase") \/ ret'.val.obj.phase \notin Phases)) =>
          game_data'.phase = DerivedPhase(Player(heap').hp, Enemy(heap').hp)]_vars

\* C20: once the phase is ending no later play_round moves it back, and the
\* phase never returns to init after initialize_game.
C20_EndingIsFinal ==
    [][/\ (game_data.phase = "ending" /\ ret'.op = "play_round" =>
              game_data'.phase = "ending")
       /\ (Initialized => game_data'.phase # "init")]_vars

\* The whole content of history entry i: its own fields and the data it holds
EntryContent(gd, h, i) ==
    [entry |-> Without(gd.history[i], {"data"}), data |-> HistoryData(gd.history[i], h)]

\* C21: a history entry is never changed after it is appended: the content of
\* every entry, the seed data of the init record and the payload of each round
\* record included, is the same before and after any later play_round.
C21_HistoryImmutable ==
    [][ret'.op = "play_round" =>
          \A i \in 1..Len(game_data.history) :
              EntryContent(game_data', heap', i) = EntryContent(game_data, heap, i)]_vars

\* C22: in offline mode the k-th play_round after initialize_game uses the
\* canned bucket that holds k (1..3, 4..6, 7..9, 10 and up): it reports that
\* bucket's enemy skill and leaves each hp at the previous hp minus that
\* bucket's damage, floored at 0.
C22_BucketOfTurn ==
    [][(/\ ~LiveMode
        /\ Initialized
        /\ ret'.op = "play_round"
        /\ Len(calls') >= 1
        /\ ~calls'[1].prompt.marker) =>
          /\ ~ret'.raised
          /\ ret'.val.obj.enemy_skill_used = Bucket(turns').enemy_skill
          /\ Player(heap').hp = Max(0, Player(heap).hp - Bucket(turns').enemy_damage)
          /\ Enemy(heap').hp = Max(0, Enemy(heap).hp - Bucket(turns').player_damage)]_vars

\* C23: the offline generator is a pure function of the prompt and the state:
\* a call that it answers leaves the whole battle state unchanged, the
\* used-skills sequence included, and a second call with the same prompt in
\* the state the first one left returns the same text.
C23_MockIsPure ==
    [][(ret'.op = "call_ai" /\ ~calls'[1].live) =>
          /\ game_data' = game_data
          /\ heap' = heap
          /\ ret'.text = _call_ai_mock(calls'[1].prompt, game_data',
                                       Player(heap'), Enemy(heap')).text]_vars

\* The default of a numeric field of a combatant (lines 326-334)
DefaultOf(side, f) ==
    IF f = "conc" THEN 100 ELSE IF side = "player" THEN 1000 ELSE 1200

\* C25: after initialize_game with a backend record that holds both
\* combatants, hp, max_hp and conc are defined for both: the record's value
\* where it has one, else the default (player hp = max_hp = 1000, enemy
\* hp = max_hp = 1200, conc = 100), also when hp is present and only max_hp
\* or conc is missing.
C25_DefaultsFilled ==
    (/\ ret.op = "initialize_game"
     /\ ~ret.raised
     /\ Len(calls) >= 1
     /\ ~IsNone(calls[1].out.text)
     /\ Parses(calls[1].out.text)
     /\ calls[1].out.text.val.kind = "dict"
     /\ {"player", "enemy"} \subseteq DOMAIN calls[1].out.text.val.obj) =>
        \A side \in {"player", "enemy"}, f \in {"hp", "max_hp", "conc"} :
            /\ Has(heap[Len(heap)][side], f)
            /\ heap[Len(heap)][side][f] =
                   Get(calls[1].out.text.val.obj[side], f, DefaultOf(side, f))

\* A live call whose three attempts failed and that returned offline output
Exhausted(c) == c.attempts = max_retries /\ ~c.live

\* C26: after a live call has exhausted its 3 attempts and returned offline
\* output the backend selection is unchanged: the next call_ai, in the same
\* operation or in the next one, attempts the live endpoint again, and mode
\* still reports live.
C26_DowngradePerCall ==
    [][/\ ((\E i \in 1..Len(calls) : Exhausted(calls[i])) =>
              /\ ~use_mock' /\ ai_enabled'
              /\ get_game_status(game_data', heap').mode = "real"
              /\ \A j \in 1..Len(calls') : calls'[j].attempts >= 1)
       /\ \A i \in 1..Len(calls') :
              Exhausted(calls'[i]) =>
                  \A j \in (i + 1)..Len(calls') : calls'[j].attempts >= 1]_vars

\* C26 witness: a turn whose round call exhausted its attempts and whose
\* summary call then reached the endpoint and got its reply
C26_RetriedAfterDowngrade ==
    /\ ret.op = "play_round"
    /\ Len(calls) = 2
    /\ Exhausted(calls[1])
    /\ calls[2].live
    /\ calls[2].attempts = 1

\* C27: update_summary calls the backend exactly after the play_round calls
\* whose completed-round number is a multiple of 3, and after no other round.
C27_SummaryEveryThirdRound ==
    [][(Initialized /\ ret'.op = "play_round" /\ ~ret'.raised) =>
          ((\E i \in 1..Len(calls') : calls'[i].prompt.kind = "summary")
              <=> game_data'.round % 3 = 0)]_vars

\* C28: update_summary leaves the summary alone when the reply is empty, has
\* 10 characters or fewer, or the backend call raises; otherwise it replaces
\* the whole summary with the reply; and it changes no other part of the
\* battle state.
C28_SummaryFrame ==
    [][ret'.op = "update_summary" =>
          /\ heap' = heap
          /\ game_data' =
                 [game_data EXCEPT !.current_summary =
                     IF /\ Len(calls') >= 1
                        /\ ~calls'[1].out.raised
                        /\ calls'[1].out.text.len > 10
                     THEN calls'[1].out.text
                     ELSE @]]_vars

\* The round record the backend reported for the turn just played: the value
\* its reply carries
Reported == calls[1].out.text.val.obj

\* A turn that returned, whose reply was parsed into a record with a status
StatusReported ==
    /\ ret.op = "play_round"
    /\ ~ret.raised
    /\ Len(calls) >= 1
    /\ ~IsNone(calls[1].out.text)
    /\ Parses(calls[1].out.text)
    /\ calls[1].out.text.val.kind = "dict"
    /\ Has(Reported, "status")

\* min(max(v, 0), ceiling) of the reported field, 0 when it is missing
Expected(f, ceiling) == Min(Max(Get(Reported.status, f, 0), 0), ceiling)

\* C29: when the round record has a status, the values stored and returned
\* by play_round are hp = min(max(v, 0), 2000) and conc = min(max(v, 0), 100)
\* of the reported v for each side, a missing status field counting as 0, and
\* the stored values equal those of the returned payload.
C29_StatusClamped ==
    StatusReported =>
        /\ ret.val.obj.status.player_hp = Expected("player_hp", 2000)
        /\ ret.val.obj.status.enemy_hp = Expected("enemy_hp", 2000)
        /\ ret.val.obj.status.player_conc = Expected("player_conc", 100)
        /\ ret.val.obj.status.enemy_conc = Expected("enemy_conc", 100)
        /\ CurPlayer.hp = ret.val.obj.status.player_hp
        /\ CurEnemy.hp = ret.val.obj.status.enemy_hp
        /\ CurPlayer.conc = ret.val.obj.status.player_conc
        /\ CurEnemy.conc = ret.val.obj.status.enemy_conc

\* C29 witness: a turn whose reply reported hp 5000 and -3 and conc 150 and
\* -5, stored as 2000, 0, 100 and 0
C29_OutOfRangeClamped ==
    /\ StatusReported
    /\ Reported.status = [player_hp |-> 5000, enemy_hp |-> -3,
                          player_conc |-> 150, enemy_conc |-> -5]
    /\ CurPlayer.hp = 2000 /\ CurEnemy.hp = 0
    /\ CurPlayer.conc = 100 /\ CurEnemy.conc = 0

NoDuplicates(seq) == \A i, j \in 1..Len(seq) : seq[i] = seq[j] => i = j

\* C30: the used-skills sequence never holds a skill twice; a play_round adds
\* to it at most the non-empty enemy skill of that round's record, at the
\* end and only if it is not there yet, and leaves the entries it had in
\* their order.
C30_UsedSkillsOrderedSet ==
    [][/\ NoDuplicates(game_data'.enemy_skills_used)
       /\ (ret'.op = "play_round" =>
              \/ game_data'.enemy_skills_used = game_data.enemy_skills_used
              \/ /\ ~ret'.raised
                 /\ Get(ret'.val.obj, "enemy_skill_used", "") # ""
                 /\ ~InSeq(game_data.enemy_skills_used, ret'.val.obj.enemy_skill_used)
                 /\ game_data'.enemy_skills_used =
                        Append(game_data.enemy_skills_used,
                               ret'.val.obj.enemy_skill_used))]_vars

----------------------------------------------------------------------------
(* An offline game as main() drives it: the engine is seeded once and        *)
(* play_round is called while is_game_over is false.  The player types any   *)
(* action text; the texts holding the offline generator's marker come first  *)
(* in a game, in any number.                                                 *)

\* Every turn played so far had an action text holding the marker
MarkerSoFar(gd) ==
    \A i \in 1..Len(gd.history) :
        Has(gd.history[i], "action") => gd.history[i].action = "init_marker"

\* The action texts the player may type next
MainActions(gd) == IF MarkerSoFar(gd) THEN Actions ELSE {"attack"}

MainInit == Init /\ ~LiveMode

\* game.initialize_game(player_name, enemy_name)
MainSeed ==
    /\ ~Initialized
    /\ InitializeGame

\* One pass of "while not game.is_game_over()" that reaches play_round
MainTurn ==
    /\ Initialized
    /\ ~is_game_over(game_data, Player(heap), Enemy(heap))
    /\ \E action \in MainActions(game_data),
          script1 \in Scripts(LiveRoundReplies, GarbageText),
          script2 \in Scripts(LiveSummaryReplies, GarbageText) :
          \E r \in {play_round(action, script1, script2, game_data, heap)} :
              /\ game_data' = r.gd
              /\ heap' = r.heap
              /\ ret' = Ret("play_round", r.raised, r.val, NoneText)
              /\ calls' = r.calls
              /\ answered' = (answered \/ Answered(r.calls))
    /\ turns' = turns + 1
    /\ UNCHANGED <<server_vars, use_mock, ai_enabled, client, diagnostic, deviations, overruns>>

MainNext ==
    \/ MainSeed
    \/ MainTurn

\* main() keeps going: it seeds the engine and plays turns until the game is
\* over
MainSpec == MainInit /\ [][MainNext]_vars /\ WF_vars(MainNext)

\* The game is over with a combatant at hp 0, before the round cap
EndedByHp ==
    /\ Initialized
    /\ is_game_over(game_data, CurPlayer, CurEnemy)
    /\ (CurPlayer.hp = 0 \/ CurEnemy.hp = 0)
    /\ game_data.round < RoundCap

\* A turn of the game had an action text holding the marker
MarkerUsed ==
    \E i \in 1..Len(game_data.history) :
        Has(game_data.history[i], "action") /\ game_data.history[i].action = "init_marker"

\* No backend call of the last operation reached the endpoint
NoLiveCall == \A i \in 1..Len(calls) : calls[i].attempts = 0 /\ ~calls[i].live

C31_RoundFrame ==
    [][ret'.op = "play_round" =>
          /\ Without(Player(heap'), {"hp", "conc"}) = Without(Player(heap), {"hp", "conc"})
          /\ Without(Enemy(heap'), {"hp", "conc"}) = Without(Enemy(heap), {"hp", "conc"})
          /\ Len(heap') = Len(heap)
          /\ game_data'.battle_reason = game_data.battle_reason
          /\ game_data'.mode = game_data.mode]_vars

\* C31 witness: a turn that lowered the hp of a seeded player whose name,
\* max_hp and skills are those of the seed
C31_RoundChangedHp ==
    /\ Initialized
    /\ ret.op = "play_round"
    /\ ~ret.raised
    /\ CurPlayer.hp = 1100 /\ CurPlayer.max_hp = 1200
    /\ CurPlayer.name = "ronin"
    /\ CurPlayer.skills = MockSeed.player.skills
    /\ game_data.battle_reason = "antimatter_battery"

\* C32: after one initialize_game and any sequence of play_round calls, those
\* that raise included, the history length is round + 1 and the round
\* records in history carry the round numbers 1, 2, ..., round in order.
C32_HistoryMatchesRound ==
    (/\ Len(heap) = 2
     /\ game_data.history # <<>>
     /\ Has(game_data.history[1], "type")) =>
        /\ Len(game_data.history) = game_data.round + 1
        /\ \A i \in 2..Len(game_data.history) : game_data.history[i].round = i - 1

----------------------------------------------------------------------------
(* The chat server (src/server.py): AIServer keeps the conversation with a   *)
(* device in conversation_memory and answers each message it receives.       *)
(* Writing the log file is left out; on_connect only subscribes.             *)

\* The payloads a message carries: the connect message a client sends
\* ({"action": "connect", "device_id": ...}), one without device_id, a
\* chat message ({"message": "hi"}), one with an empty message, plain text
\* that is no JSON ("hi"), and bytes that are no UTF-8
Payloads == {"connect", "connect_no_id", "message", "empty_message", "text", "undecodable"}

\* msg.payload.decode('utf-8') succeeds
Decodes(payload) == payload # "undecodable"

\* Lines 47-52: the payload is a JSON object whose action is "connect" and
\* whose device_id can be logged
IsConnect(payload) == payload = "connect"

\* Lines 46-56: the user message of a payload that is no connect message.
\* data['device_id'] raises KeyError for a connect message without device_id,
\* json.loads raises for plain text: the bare except takes the raw data.
UserMessage(payload) ==
    IF payload = "message" THEN "hi"
    ELSE IF payload = "empty_message" THEN ""
    ELSE IF payload = "connect_no_id" THEN "raw_connect"
    ELSE "hi"

\* Lines 65-66: the last max_memory entries
Truncated(memory) ==
    IF Len(memory) > max_memory
    THEN SubSeq(memory, Len(memory) - max_memory + 1, Len(memory))
    ELSE memory

Handled(memory, out) == [memory |-> memory, published |-> out]

\* Lines 68-92: the endpoint is called with the memory and answers or raises
Replied(memory, ai) ==
    IF ai = "raise" THEN Handled(memory, "error")
    ELSE Handled(Append(memory, [role |-> "assistant", content |-> "meow"]), "reply")

\* on_message for a payload and a behaviour of the endpoint
on_message(payload, ai, memory) ==
    IF ~Decodes(payload) THEN Handled(memory, "error")
    ELSE IF IsConnect(payload) THEN Handled(<<>>, "nothing")
    ELSE IF UserMessage(payload) = "" THEN Handled(memory, "nothing")
    ELSE The({Replied(m, ai) :
              m \in {Truncated(Append(memory, [role |-> "user",
                                                content |-> UserMessage(payload)]))}})

ServerInit == Init /\ diagnostic = "mock_mode"

OnMessage ==
    /\ messages < MaxMessages
    /\ \E payload \in Payloads, ai \in {"ok", "raise"} :
          \E r \in {on_message(payload, ai, conversation_memory)} :
              /\ conversation_memory' = r.memory
              /\ published' = r.published
              /\ received' = payload
    /\ messages' = messages + 1
    /\ UNCHANGED engine_vars

ServerNext == OnMessage

ServerSpec == ServerInit /\ [][ServerNext]_vars

\* C33: in the chat server, after every handled message, on the success path
\* and on the error path, the conversation memory holds at most
\* max_memory = 12 entries, and a connect message empties it.
C33_MemoryBounded ==
    messages > 0 =>
        /\ Len(conversation_memory) <= max_memory
        /\ (received = "connect" => conversation_memory = <<>>)

====
